---- MODULE Spec2Model ----
(***************************************************************************)
(* Model of murmure.py: the directory-level driver process_all_files, the  *)
(* container transcode convert_m4a_to_mp3, the segmenter split_audio and   *)
(* the per-file pipeline process_audio (transcribe, optional GPT           *)
(* post-processing, newline-joined reassembly, persisted as <stem>.txt).   *)
(*                                                                         *)
(* File names and transcripts are sequences of one-character strings, so   *)
(* that endswith / splitext / lower / "+" are computed, not assumed.       *)
(***************************************************************************)
EXTENDS Integers, Sequences, FiniteSets, TLC

(***************************************************************************)
(* Bounds of the model.                                                    *)
(***************************************************************************)
MaxDur == 3          \* longest audio of a run, in units of five minutes
MaxRuns == 2         \* how many times the script is started on one directory
SplitMaxDur == 12    \* longest audio in the segmenter-only specification
SplitMaxLen == 5     \* largest chunk length in the segmenter-only one

\* line 167: chunk_length_ms = 10 * 60 * 1000, in units of five minutes
CHUNK_LENGTH_MS == 2

Min(a, b) == IF a <= b THEN a ELSE b

SetMax(S) == CHOOSE x \in S : \A y \in S : y <= x

(***************************************************************************)
(* Strings.                                                                *)
(***************************************************************************)
NL == "\n"

EXT_M4A == <<".", "m", "4", "a">>
EXT_MP3 == <<".", "m", "p", "3">>
EXT_TXT == <<".", "t", "x", "t">>

A_M4A == <<"a">> \o EXT_M4A
A_MP3 == <<"a">> \o EXT_MP3
B_MP3 == <<"b">> \o EXT_MP3
DOT_MP3 == EXT_MP3
N_TXT == <<"n">> \o EXT_TXT

\* the names a source directory may hold
Names == {A_M4A, A_MP3, B_MP3, DOT_MP3, N_TXT}

\* the names of the directory the script is started on repeatedly
RerunNames == {A_M4A, A_MP3, DOT_MP3, N_TXT}

\* str.endswith
endswith(s, suffix) ==
    /\ Len(s) >= Len(suffix)
    /\ SubSeq(s, Len(s) - Len(suffix) + 1, Len(s)) = suffix

\* str.lower, character by character
lowerChar(c) ==
    CASE c = "M" -> "m"
      [] c = "P" -> "p"
      [] c = "A" -> "a"
      [] OTHER -> c

lower(s) == [i \in 1..Len(s) |-> lowerChar(s[i])]

\* os.path.splitext on a name without directory part: <<root, ext>>; the
\* extension starts at the last dot unless only dots precede it
splitext(p) ==
    LET dots == {i \in 1..Len(p) : p[i] = "."}
    IN  IF dots = {} THEN <<p, <<>>>>
        ELSE LET d == SetMax(dots)
             IN  IF \E j \in 1..(d - 1) : p[j] # "."
                 THEN <<SubSeq(p, 1, d - 1), SubSeq(p, d, Len(p))>>
                 ELSE <<p, <<>>>>

\* line 118: file_name.endswith((".m4a", ".mp3"))
IsAudioName(file_name) == endswith(file_name, EXT_M4A) \/ endswith(file_name, EXT_MP3)

\* line 120
FileExtension(file_name) == lower(splitext(file_name)[2])

\* lines 53-57: the .mp3 sibling, in the same directory
Mp3Path(m4a_file_path) == splitext(m4a_file_path)[1] \o EXT_MP3

\* line 139
TranscriptFileName(file_name) == splitext(file_name)[1] \o EXT_TXT

(***************************************************************************)
(* Directory contents.  An entry is a file or a sub-directory; audio is    *)
(* the decoded duration, or NoAudio when the entry cannot be decoded.      *)
(***************************************************************************)
NoAudio == -1

DirEntry == [kind |-> "dir", audio |-> NoAudio]

FileEntry(a) == [kind |-> "file", audio |-> a]

\* the value of mp3_file when convert_m4a_to_mp3 returns None
None == <<>>

\* os.path.exists(path)
Exists(dir, path) == path \in DOMAIN dir

\* AudioSegment.from_file / from_mp3 succeed on the entry
Decodable(dir, path) ==
    /\ path \in DOMAIN dir
    /\ dir[path].kind = "file"
    /\ dir[path].audio # NoAudio

\* writing (or replacing) one entry of a directory
Put(dir, path, entry) ==
    [x \in (DOMAIN dir) \cup {path} |-> IF x = path THEN entry ELSE dir[x]]

(***************************************************************************)
(* split_audio: for i in range(0, len(audio), chunk_length_ms):            *)
(*                  chunks.append(audio[i : i + chunk_length_ms])          *)
(* A chunk is the pair <<start, end>> of the slice, the slice being        *)
(* clamped to the length of the audio.                                     *)
(***************************************************************************)
RECURSIVE split_from(_, _, _)
split_from(i, duration, chunk_length) ==
    IF i >= duration THEN <<>>
    ELSE <<<<i, Min(i + chunk_length, duration)>>>>
             \o split_from(i + chunk_length, duration, chunk_length)

RECURSIVE split_full_only(_, _, _)
split_full_only(i, duration, chunk_length) ==
    IF i + chunk_length > duration THEN <<>>
    ELSE <<<<i, i + chunk_length>>>>
             \o split_full_only(i + chunk_length, duration, chunk_length)

\* a segmenter that drops the trailing partial chunk
split_audio_droptail(duration, chunk_length) ==
    split_full_only(0, duration, chunk_length)

split_audio(duration, chunk_length) == split_from(0, duration, chunk_length)

(***************************************************************************)
(* Backend responses.                                                      *)
(***************************************************************************)
Texts == {<<"x">>, <<"y", NL>>}

\* what client.audio.transcriptions.create may return: a plain string, or
\* a structured result carrying the text in choices[0].text
Responses ==
    [shape : {"str"}, text : Texts] \cup [shape : {"obj"}, choices : {<<[text |-> t]>> : t \in Texts}]

\* lines 94-97
ResponseText(response) ==
    IF response.shape = "str" THEN response.text ELSE response.choices[1].text

\* an accumulator that forgets the line break
AppendSegment_nobreak(full, transcript) == full \o transcript

\* line 162: full_transcript += transcript + "\n"
AppendSegment(full, transcript) == full \o transcript \o <<NL>>

\* a driver that ignores the configuration switch
ShouldTranscribe_flagless(enabled, mp3) == mp3 # None

\* line 133: if transcription_enabled and mp3_file
ShouldTranscribe(enabled, mp3) == enabled /\ mp3 # None

\* a converter that transcodes whether or not the sibling exists
SkipConversion_never(dir, mp3_path) == FALSE

\* line 60: the sibling check that lets convert_m4a_to_mp3 skip the transcode
SkipConversion(dir, mp3_path) == Exists(dir, mp3_path)

\* a pipeline that never post-processes
AfterTranscribe_norefine(use_gpt) == "append"

\* lines 160-161: where a raw transcription goes next
AfterTranscribe(use_gpt) == IF use_gpt THEN "refine" ELSE "append"

\* a pipeline that returns from inside the loop
AfterAppend_early(done, total) == "write"

\* lines 158, 163: the loop over chunks goes on, or process_audio returns
\* and the caller writes the file
AfterAppend(done, total) == IF done >= total THEN "write" ELSE "transcribe"

(***************************************************************************)
(* State.                                                                  *)
(***************************************************************************)
VARIABLES
    srcdir,                 \* input_source_path: name -> entry
    outdir,                 \* output_transcript_path: name -> content
    transcription_enabled,  \* config["transcription"]["enabled"]
    use_gpt_post_process,   \* args.gpt_post_process
    chunk_length_ms,        \* argument of process_all_files
    runs,                   \* number of times the script was started
    budget,                 \* number of times it will be started at most
    pc,                     \* position of the script
    listing,                \* what os.listdir returned in this run
    todo,                   \* entries of it not yet iterated
    file_name,              \* loop variable of process_all_files
    mp3_file,               \* path handed to process_audio, or None
    chunks,                 \* process_audio: result of split_audio
    idx,                    \* process_audio: number of chunks consumed
    transcript,             \* process_audio: text of the current chunk
    full_transcript,        \* process_audio: accumulator
    calls,                  \* history: backend calls made for file_name,
                            \*   <<kind, chunk>>
    segments,               \* history: t_1 .. t_i for file_name, as the
                            \*   backend returned them (refined if enabled)
    saved,                  \* history: input -> transcript saved this run
    decoded,                \* history: inputs handed to the transcoder this run
    conv_ok,                \* history: inputs transcoded successfully this run
    converted,              \* history: inputs transcoded successfully earlier
    cause                   \* history: what raised, when pc = "aborted"

config == <<transcription_enabled, use_gpt_post_process, chunk_length_ms>>

locals == <<chunks, idx, transcript, full_transcript>>

vars == <<srcdir, outdir, transcription_enabled, use_gpt_post_process,
          chunk_length_ms, runs, budget, pc, listing, todo, file_name, mp3_file, chunks, idx,
          transcript, full_transcript, calls, segments, saved, decoded, conv_ok,
          converted, cause>>

EmptyDir == [x \in {} |-> DirEntry]

\* the contents an entry of the source directory starts with: a
\* sub-directory, a file that does not decode, or audio of some duration
InitialEntries(name) ==
    CASE name = DOT_MP3 -> {FileEntry(NoAudio)}
      [] name = N_TXT -> {DirEntry, FileEntry(NoAudio)}
      [] OTHER -> {DirEntry, FileEntry(NoAudio)} \cup {FileEntry(d) : d \in 0..MaxDur}

\* the directories over a set of names
InitialDirs(names) ==
    LET all == UNION {[present -> UNION {InitialEntries(n) : n \in present}] :
                        present \in SUBSET names}
    IN  {d \in all : /\ \A n \in DOMAIN d : d[n] \in InitialEntries(n)
                      /\ ~({DOT_MP3, N_TXT} \subseteq DOMAIN d)}

\* the state once the module-level code (lines 9-46) has run, before
\* __main__ calls process_all_files
Start(dirs, starts) ==
    /\ srcdir \in dirs
    /\ outdir = EmptyDir
    /\ transcription_enabled \in BOOLEAN
    /\ use_gpt_post_process \in BOOLEAN
    /\ chunk_length_ms = CHUNK_LENGTH_MS
    /\ runs = 0
    /\ budget = starts
    /\ pc = "start"
    /\ listing = {}
    /\ todo = {}
    /\ file_name = None
    /\ mp3_file = None
    /\ chunks = <<>>
    /\ idx = 0
    /\ transcript = <<>>
    /\ full_transcript = <<>>
    /\ calls = <<>>
    /\ segments = <<>>
    /\ saved = EmptyDir
    /\ decoded = {}
    /\ conv_ok = {}
    /\ converted = {}
    /\ cause = "none"

\* one run over any directory
Init == Start(InitialDirs(Names), 1)

\* repeated runs over a directory holding a recording, its .mp3 sibling and
\* an entry that is not processed
InitRerun == Start(InitialDirs(RerunNames), MaxRuns)

(***************************************************************************)
(* process_all_files                                                       *)
(***************************************************************************)
\* __main__ calls process_all_files; os.listdir is read once (line 114).
\* The script may be started again once a run has ended.
StartRun ==
    /\ pc \in {"start", "done", "aborted"}
    /\ runs < budget
    /\ runs' = runs + 1
    /\ pc' = "loop"
    /\ listing' = DOMAIN srcdir
    /\ todo' = DOMAIN srcdir
    /\ file_name' = None
    /\ mp3_file' = None
    /\ chunks' = <<>>
    /\ idx' = 0
    /\ transcript' = <<>>
    /\ full_transcript' = <<>>
    /\ calls' = <<>>
    /\ segments' = <<>>
    /\ saved' = EmptyDir
    /\ decoded' = {}
    /\ conv_ok' = {}
    /\ converted' = converted \cup conv_ok
    /\ cause' = "none"
    /\ UNCHANGED <<srcdir, outdir, config, budget>>

\* lines 133-151 for entry n, once mp3 is known: either process_audio is
\* entered (split_audio raises when the mp3 cannot be decoded), or the entry
\* is reported and the loop goes on
Proceed(n, mp3, dir) ==
    /\ file_name' = n
    /\ mp3_file' = mp3
    /\ todo' = todo \ {n}
    /\ IF ShouldTranscribe(transcription_enabled, mp3)
       THEN IF Decodable(dir, mp3)
            THEN /\ chunks' = split_audio(dir[mp3].audio, chunk_length_ms)
                 /\ idx' = 0
                 /\ transcript' = <<>>
                 /\ full_transcript' = <<>>
                 /\ calls' = <<>>
                 /\ segments' = <<>>
                 /\ pc' = AfterAppend(0, Len(chunks'))
                 /\ cause' = cause
            ELSE /\ pc' = "aborted"
                 /\ cause' = "split"
                 /\ calls' = <<>>
                 /\ segments' = <<>>
                 /\ UNCHANGED locals
       ELSE /\ pc' = "loop"
            /\ calls' = <<>>
            /\ segments' = <<>>
            /\ UNCHANGED <<locals, cause>>

\* line 118 false: the entry is not looked at further
SkipEntry(n) ==
    /\ pc = "loop"
    /\ n \in todo
    /\ ~IsAudioName(n)
    /\ todo' = todo \ {n}
    /\ file_name' = n
    /\ calls' = <<>>
    /\ segments' = <<>>
    /\ UNCHANGED <<srcdir, outdir, config, runs, budget, listing, pc, mp3_file, locals,
                   saved, decoded, conv_ok, converted, cause>>

\* lines 128-130: the name ends with an audio suffix but has no such
\* extension (a name that is nothing but the suffix)
UnsupportedEntry(n) ==
    /\ pc = "loop"
    /\ n \in todo
    /\ IsAudioName(n)
    /\ FileExtension(n) \notin {EXT_M4A, EXT_MP3}
    /\ todo' = todo \ {n}
    /\ file_name' = n
    /\ calls' = <<>>
    /\ segments' = <<>>
    /\ UNCHANGED <<srcdir, outdir, config, runs, budget, listing, pc, mp3_file, locals,
                   saved, decoded, conv_ok, converted, cause>>

\* lines 125-127: an .mp3 entry is its own mp3_file
Mp3Entry(n) ==
    /\ pc = "loop"
    /\ n \in todo
    /\ IsAudioName(n)
    /\ FileExtension(n) = EXT_MP3
    /\ Proceed(n, n, srcdir)
    /\ UNCHANGED <<srcdir, outdir, config, runs, budget, listing, saved, decoded, conv_ok,
                   converted>>

\* lines 122-124 with convert_m4a_to_mp3 (lines 50-73): the sibling exists
\* and is returned; or the input is decoded and exported as the sibling; or
\* decoding raises and None is returned; or the export raises, which may
\* leave an undecodable sibling behind, and None is returned
M4aEntry(n) ==
    /\ pc = "loop"
    /\ n \in todo
    /\ IsAudioName(n)
    /\ FileExtension(n) = EXT_M4A
    /\ LET mp3_file_path == Mp3Path(n)
       IN  IF SkipConversion(srcdir, mp3_file_path)
           THEN /\ Proceed(n, mp3_file_path, srcdir)
                /\ UNCHANGED <<srcdir, decoded, conv_ok>>
           ELSE IF Decodable(srcdir, n)
           THEN \/ /\ srcdir' = Put(srcdir, mp3_file_path, FileEntry(srcdir[n].audio))
                   /\ decoded' = decoded \cup {n}
                   /\ conv_ok' = conv_ok \cup {n}
                   /\ Proceed(n, mp3_file_path, srcdir')
                \/ /\ srcdir' \in {srcdir, Put(srcdir, mp3_file_path, FileEntry(NoAudio))}
                   /\ decoded' = decoded \cup {n}
                   /\ conv_ok' = conv_ok
                   /\ Proceed(n, None, srcdir')
           ELSE /\ decoded' = decoded \cup {n}
                /\ Proceed(n, None, srcdir)
                /\ UNCHANGED <<srcdir, conv_ok>>
    /\ UNCHANGED <<outdir, config, runs, budget, listing, saved, converted>>

(***************************************************************************)
(* process_audio, one backend call per step                                *)
(***************************************************************************)
\* line 162 and the loop header
AppendText(text) ==
    /\ full_transcript' = AppendSegment(full_transcript, text)
    /\ idx' = idx + 1
    /\ pc' = AfterAppend(idx + 1, Len(chunks))

\* line 159, transcribe (lines 86-97): the backend answers in one of its
\* two shapes
TranscribeOk ==
    /\ pc = "transcribe"
    /\ \E response \in Responses :
         /\ transcript' = ResponseText(response)
         /\ calls' = Append(calls, <<"T", idx + 1>>)
         /\ IF AfterTranscribe(use_gpt_post_process) = "refine"
            THEN /\ pc' = "refine"
                 /\ UNCHANGED <<full_transcript, idx>>
            ELSE AppendText(transcript')
         /\ segments' = IF use_gpt_post_process
                     THEN segments
                     ELSE Append(segments, ResponseText(response))
    /\ UNCHANGED <<srcdir, outdir, config, runs, budget, listing, todo, file_name, mp3_file,
                   chunks, saved, decoded, conv_ok, converted, cause>>

\* line 159: the transcription request raises; nothing catches it, the
\* script ends
TranscribeFail ==
    /\ pc = "transcribe"
    /\ calls' = Append(calls, <<"T", idx + 1>>)
    /\ segments' = segments
    /\ pc' = "aborted"
    /\ cause' = "transcribe"
    /\ UNCHANGED <<srcdir, outdir, config, runs, budget, listing, todo, file_name, mp3_file,
                   locals, saved, decoded, conv_ok, converted>>

\* line 161, post_process_transcript (lines 101-109)
RefineOk ==
    /\ pc = "refine"
    /\ \E content \in Texts :
         /\ transcript' = content
         /\ calls' = Append(calls, <<"R", idx + 1>>)
         /\ AppendText(transcript')
         /\ segments' = Append(segments, content)
    /\ UNCHANGED <<srcdir, outdir, config, runs, budget, listing, todo, file_name, mp3_file,
                   chunks, saved, decoded, conv_ok, converted, cause>>

\* line 161: the rewrite backend raises; nothing catches it
RefineFail ==
    /\ pc = "refine"
    /\ calls' = Append(calls, <<"R", idx + 1>>)
    /\ segments' = segments
    /\ pc' = "aborted"
    /\ cause' = "refine"
    /\ UNCHANGED <<srcdir, outdir, config, runs, budget, listing, todo, file_name, mp3_file,
                   locals, saved, decoded, conv_ok, converted>>

\* lines 139-146: the transcript is written as <stem>.txt
WriteOk ==
    /\ pc = "write"
    /\ outdir' = Put(outdir, TranscriptFileName(file_name), full_transcript)
    /\ saved' = Put(saved, file_name, full_transcript)
    /\ pc' = "loop"
    /\ UNCHANGED <<srcdir, config, runs, budget, listing, todo, file_name, mp3_file, locals,
                   calls, segments, decoded, conv_ok, converted, cause>>

\* lines 144-145 raise: open fails and leaves the directory as it was, or
\* write fails after open has truncated the file
WriteFail ==
    /\ pc = "write"
    /\ \/ outdir' = outdir
       \/ outdir' = Put(outdir, TranscriptFileName(file_name), <<>>)
    /\ pc' = "aborted"
    /\ cause' = "write"
    /\ UNCHANGED <<srcdir, config, runs, budget, listing, todo, file_name, mp3_file, locals,
                   calls, segments, saved, decoded, conv_ok, converted>>

\* the listing is exhausted: process_all_files returns
Finish ==
    /\ pc = "loop"
    /\ todo = {}
    /\ pc' = "done"
    /\ UNCHANGED <<srcdir, outdir, config, runs, budget, listing, todo, file_name, mp3_file,
                   locals, calls, segments, saved, decoded, conv_ok, converted,
                   cause>>

Next ==
    \/ StartRun
    \/ \E n \in Names : SkipEntry(n)
    \/ \E n \in Names : UnsupportedEntry(n)
    \/ \E n \in Names : Mp3Entry(n)
    \/ \E n \in Names : M4aEntry(n)
    \/ TranscribeOk
    \/ TranscribeFail
    \/ RefineOk
    \/ RefineFail
    \/ WriteOk
    \/ WriteFail
    \/ Finish

Spec == Init /\ [][Next]_vars

SpecRerun == InitRerun /\ [][Next]_vars

(***************************************************************************)
(* The segmenter on its own: split_audio applied to one decodable file,    *)
(* for every duration and chunk length within the bounds.                  *)
(***************************************************************************)
InitSplit ==
    /\ srcdir \in {[x \in {B_MP3} |-> FileEntry(d)] : d \in 0..SplitMaxDur}
    /\ outdir = EmptyDir
    /\ transcription_enabled = TRUE
    /\ use_gpt_post_process = FALSE
    /\ chunk_length_ms \in 1..SplitMaxLen
    /\ runs = 1
    /\ budget = 1
    /\ pc = "segment"
    /\ listing = {B_MP3}
    /\ todo = {}
    /\ file_name = B_MP3
    /\ mp3_file = B_MP3
    /\ chunks = <<>>
    /\ idx = 0
    /\ transcript = <<>>
    /\ full_transcript = <<>>
    /\ calls = <<>>
    /\ segments = <<>>
    /\ saved = EmptyDir
    /\ decoded = {}
    /\ conv_ok = {}
    /\ converted = {}
    /\ cause = "none"

\* line 156: chunks = split_audio(file_path, chunk_length_ms)
SplitAudio ==
    /\ pc = "segment"
    /\ chunks' = split_audio(srcdir[mp3_file].audio, chunk_length_ms)
    /\ pc' = "segmented"
    /\ UNCHANGED <<srcdir, outdir, config, runs, budget, listing, todo, file_name,
                   mp3_file, idx, transcript, full_transcript, calls, segments, saved,
                   decoded, conv_ok, converted, cause>>

NextSplit == SplitAudio

SpecSplit == InitSplit /\ [][NextSplit]_vars

(***************************************************************************)
(* Vocabulary of the properties.                                           *)
(***************************************************************************)
\* ceil(D / L) for L > 0
Ceil(D, L) == (D + L - 1) \div L

\* the entries process_all_files is meant to work on, by name
Eligible(n) == IsAudioName(n) /\ FileExtension(n) \in {EXT_M4A, EXT_MP3}

\* the inputs whose transcoding failed in this run
conv_failed == decoded \ conv_ok

RunOver == pc \in {"done", "aborted"}

\* the entries in names are files, the audio ones among them decodable:
\* nothing but a backend call or the write can fail on them
Sound(names) ==
    \A n \in names : /\ srcdir[n].kind = "file"
                     /\ Eligible(n) => srcdir[n].audio # NoAudio

\* t_1 + "\n" + ... + t_n + "\n"
RECURSIVE Joined(_)
Joined(ts) ==
    IF ts = <<>> THEN <<>>
    ELSE Head(ts) \o <<NL>> \o Joined(Tail(ts))

\* T(1), [R(1),] ..., T(n), [R(n)]
RECURSIVE ExpectedCalls(_, _)
ExpectedCalls(n, refine) ==
    IF n = 0 THEN <<>>
    ELSE ExpectedCalls(n - 1, refine)
           \o (IF refine THEN <<<<"T", n>>, <<"R", n>>>> ELSE <<<<"T", n>>>>)

\* the current entry went through process_audio and its file was written
JustSaved == pc \in {"loop", "done"} /\ file_name \in DOMAIN saved

(***************************************************************************)
(* Properties.                                                             *)
(***************************************************************************)

\* C1: for duration D >= 0 and chunk length L > 0, split_audio returns
\* exactly ceil(D/L) chunks, chunk k (0-based) being [k*L, min((k+1)*L, D)):
\* non-overlapping, strictly increasing starts, every instant of [0, D) in
\* exactly one chunk, only the last possibly shorter than L, none for D = 0.
C1_SplitPartitions ==
    pc = "segmented" =>
      LET D == srcdir[mp3_file].audio
          L == chunk_length_ms
          n == Len(chunks)
      IN  /\ n = Ceil(D, L)
          /\ \A k \in 1..n : chunks[k] = <<(k - 1) * L, Min(k * L, D)>>
          /\ \A k \in 1..n : chunks[k][1] < chunks[k][2]
          /\ \A k \in 1..(n - 1) : /\ chunks[k][2] - chunks[k][1] = L
                                   /\ chunks[k][2] = chunks[k + 1][1]
                                   /\ chunks[k][1] < chunks[k + 1][1]
          /\ \A t \in 0..(D - 1) :
                Cardinality({k \in 1..n : chunks[k][1] <= t /\ t < chunks[k][2]}) = 1
          /\ \A k \in 1..n : 0 <= chunks[k][1] /\ chunks[k][2] <= D
          /\ (D = 0 => chunks = <<>>)

\* the 25-minute file with 10-minute chunks, in units of five minutes
C1_Witness ==
    /\ pc = "segmented"
    /\ srcdir[mp3_file].audio = 5
    /\ chunk_length_ms = 2
    /\ chunks = <<<<0, 2>>, <<2, 4>>, <<4, 5>>>>

\* C2: the transcript process_audio returns, and the content of the file
\* written for it, is t_1 + "\n" + ... + t_n + "\n" for the n chunks of the
\* file: one segment per chunk, in chunk order, nothing else.
C2_TranscriptIsJoinedSegments ==
    /\ pc \in {"transcribe", "refine", "write"} =>
          /\ full_transcript = Joined(segments)
          /\ Len(segments) = idx
    /\ pc = "write" => Len(segments) = Len(chunks)
    /\ JustSaved =>
          /\ Len(segments) = Len(chunks)
          /\ saved[file_name] = Joined(segments)
          /\ outdir[TranscriptFileName(file_name)] = Joined(segments)

\* a file of two chunks, the second shorter, refined, has been written
C2_Witness ==
    /\ JustSaved
    /\ use_gpt_post_process
    /\ Len(chunks) = 2
    /\ segments = <<<<"y", NL>>, <<"x">>>>
    /\ outdir[TranscriptFileName(file_name)] = <<"y", NL, NL, "x", NL>>

\* C3: whatever fails while processing one file, the run goes on with the
\* next entry and completes over all entries.
C3_RunCompletesDespiteFailures ==
    (RunOver /\ Sound(listing)) => \A n \in listing : Eligible(n) => n \notin todo

\* C4: when the transcoding of one .m4a fails, no backend call is made and
\* no transcript is written for it, every other eligible file still gets
\* its transcript file, and the run completes.
C4_TranscodeFailureSkipsOnlyThatFile ==
    \A f \in conv_failed :
      /\ f \notin DOMAIN saved
      /\ file_name = f => calls = <<>>
      /\ (RunOver /\ transcription_enabled /\ Sound(listing \ conv_failed)) =>
            /\ pc = "done"
            /\ \A g \in listing \ conv_failed :
                  (Eligible(g) /\ g # f) =>
                     /\ g \in DOMAIN saved
                     /\ TranscriptFileName(g) \in DOMAIN outdir

\* C5: with transcription disabled no transcript file is ever written and
\* no transcription or refinement call is ever made; the transcode of an
\* .m4a is all that may happen to a file.
C5_DisabledWritesNothing ==
    ~transcription_enabled =>
      /\ outdir = EmptyDir
      /\ saved = EmptyDir
      /\ calls = <<>>
      /\ pc \notin {"transcribe", "refine", "write", "aborted"}

\* a disabled run has ended after transcoding a recording
C5_Witness ==
    /\ ~transcription_enabled
    /\ pc = "done"
    /\ A_M4A \in conv_ok
    /\ B_MP3 \in DOMAIN srcdir

\* C6: after a completed run every successfully processed input has its
\* own <stem>.txt holding its transcript; no input's transcript is
\* overwritten by another input's.
C6_OneTranscriptPerInput ==
    (pc = "done" /\ Sound(listing)) =>
      \A n \in DOMAIN saved :
        /\ TranscriptFileName(n) \in DOMAIN outdir
        /\ outdir[TranscriptFileName(n)] = saved[n]

\* the step of process_all_files that handles the .m4a entry n
M4aStep(n) ==
    /\ pc = "loop"
    /\ n \in todo
    /\ n \notin todo'
    /\ IsAudioName(n)
    /\ FileExtension(n) = EXT_M4A

\* C7: convert_m4a_to_mp3 returns an existing .mp3 sibling without decoding
\* or exporting; a run after a successful conversion does not invoke the
\* transcoder for that file, and an .mp3 input never invokes it.
C7_TranscodeIdempotent ==
    /\ [](\A n \in converted : n \notin decoded)
    /\ [](\A n \in decoded : FileExtension(n) = EXT_M4A)
    /\ [][\A n \in Names :
            (M4aStep(n) /\ Exists(srcdir, Mp3Path(n))) =>
               /\ decoded' = decoded
               /\ srcdir' = srcdir
               /\ mp3_file' = Mp3Path(n)]_vars

\* the second run has gone over a recording converted by the first
C7_Witness ==
    /\ runs = 2
    /\ pc = "done"
    /\ A_M4A \in converted
    /\ A_M4A \in listing
    /\ decoded = {}

\* C8: only entries that are files with a supported audio extension are
\* transcoded, transcribed or written; every other entry is skipped without
\* an error, a backend call or an output file.
C8_OnlyAudioFilesProcessed ==
    \A n \in listing :
      ~(srcdir[n].kind = "file" /\ Eligible(n)) =>
         /\ n \notin decoded
         /\ n \notin DOMAIN saved
         /\ file_name = n => /\ calls = <<>>
                             /\ pc \notin {"transcribe", "refine", "write", "aborted"}

\* C9: the backend calls made for a file of n chunks that completes are
\* T(1), ..., T(n) without refinement and T(1), R(1), ..., T(n), R(n) with
\* it, and the calls for chunk k+1 start only once chunk k is appended.
C9_CallsInChunkOrder ==
    /\ pc = "transcribe" =>
          calls = ExpectedCalls(idx, use_gpt_post_process)
    /\ pc = "refine" =>
          /\ use_gpt_post_process
          /\ calls = ExpectedCalls(idx, TRUE) \o <<<<"T", idx + 1>>>>
    /\ (pc = "write" \/ JustSaved) =>
          /\ idx = Len(chunks)
          /\ calls = ExpectedCalls(Len(chunks), use_gpt_post_process)
    /\ \A i \in DOMAIN calls :
          /\ calls[i][2] <= idx + 1
          /\ calls[i][2] = idx + 1 => pc \in {"refine", "aborted"}

\* a refined file of two chunks has completed
C9_Witness ==
    /\ JustSaved
    /\ use_gpt_post_process
    /\ calls = <<<<"T", 1>>, <<"R", 1>>, <<"T", 2>>, <<"R", 2>>>>

\* C10: the transcript file of an input is written only after every chunk
\* has been transcribed (and refined, when enabled); a failing
\* transcription or refinement call leaves the output directory as it was.
C10_NoPartialTranscript ==
    [][/\ outdir' # outdir =>
            /\ pc = "write"
            /\ idx = Len(chunks)
            /\ Len(segments) = Len(chunks)
            /\ \A k \in 1..Len(chunks) :
                  /\ \E i \in DOMAIN calls : calls[i] = <<"T", k>>
                  /\ use_gpt_post_process =>
                        \E i \in DOMAIN calls : calls[i] = <<"R", k>>
       /\ (pc \in {"transcribe", "refine"} /\ pc' = "aborted") =>
            /\ outdir' = outdir
            /\ saved' = saved
       /\ (pc = "aborted" /\ cause \in {"transcribe", "refine"}) =>
            outdir' = outdir]_vars

\* the refinement of the second chunk has raised, nothing was written
C10_Witness ==
    /\ pc = "aborted"
    /\ cause = "refine"
    /\ idx = 1
    /\ full_transcript # <<>>
    /\ outdir = EmptyDir
====
